---- MODULE Spec2Model ----
(***************************************************************************)
(* PokerStars hand-history parser (poker/room/pokerstars.py): the _Flop    *)
(* sub-parser, the header parser, the table/seat/button/hero stages, the   *)
(* street, board, pot and winner stages, and the Notes XML document.       *)
(*                                                                         *)
(* Python strings are modelled as sequences of one-character strings, so   *)
(* that find, slicing, startswith and `in` are computed the way the code   *)
(* computes them.  Indices given to the Py* operators are Python's         *)
(* (0-based, negative values counting from the end).                       *)
(***************************************************************************)
EXTENDS Integers, Sequences, FiniteSets, TLC

VARIABLES
    pc,           \* the stage the parse is at
    err,          \* the exception that ended the parse ("" while none)
    splitted,     \* self._splitted: the hand text split into lines
    match,        \* the groups _header_re captured on the first line
    initial_pot,  \* the pot handed to _parse_flop
    hand,         \* the attributes of the PokerStarsHandHistory object
    flop,         \* the _Flop object under construction
    actions,      \* the local list `actions` of _Flop._parse_actions
    root,         \* Notes.root: the labels and the notes of the XML document
    given         \* history: the label argument each stored note was added with

vars == <<pc, err, splitted, match, initial_pot, hand, flop, actions, root,
          given>>

(***************************************************************************)
(* Python values                                                           *)
(***************************************************************************)
\* An attribute that no statement has assigned yet.
Unassigned == <<"unassigned">>
\* Python's None.
None == <<"None">>
Val(v) == <<"val", v>>
IsVal(a) == a[1] = "val"

Ok(v) == <<"ok", v>>
Raise(e) == <<"raise", e>>
IsOk(r) == r[1] = "ok"

Min(a, b) == IF a < b THEN a ELSE b
Max(a, b) == IF a < b THEN b ELSE a

\* s[a:b]
PySlice(s, a, b) ==
    LET n  == Len(s)
        a1 == IF a < 0 THEN Max(n + a, 0) ELSE Min(a, n)
        b1 == IF b < 0 THEN Max(n + b, 0) ELSE Min(b, n)
    IN  IF a1 < b1 THEN SubSeq(s, a1 + 1, b1) ELSE <<>>

\* s[a:]
PySliceFrom(s, a) == PySlice(s, a, Len(s))

\* s[:b]
PySliceTo(s, b) == PySlice(s, 0, b)

\* sub occurs in s at Python index i
OccursAt(s, sub, i) ==
    /\ i >= 0
    /\ i + Len(sub) <= Len(s)
    /\ \A k \in 1..Len(sub) : s[i + k] = sub[k]

\* s.find(sub, start): the lowest index >= start where sub occurs, else -1
PyFind(s, sub, start) ==
    LET from == IF start < 0 THEN Max(Len(s) + start, 0) ELSE start
        hits == {i \in from..(Len(s) - Len(sub)) : OccursAt(s, sub, i)}
    IN  IF hits = {} THEN -1 ELSE CHOOSE i \in hits : \A j \in hits : i <= j

\* s.rfind(sub): the highest index where sub occurs, else -1
PyRFind(s, sub) ==
    LET hits == {i \in 0..(Len(s) - Len(sub)) : OccursAt(s, sub, i)}
    IN  IF hits = {} THEN -1 ELSE CHOOSE i \in hits : \A j \in hits : j <= i

\* s.startswith(prefix)
StartsWith(s, prefix) == OccursAt(s, prefix, 0)

\* s.endswith(suffix)
EndsWith(s, suffix) == OccursAt(s, suffix, Len(s) - Len(suffix))

\* sub in s
Contains(s, sub) == PyFind(s, sub, 0) # -1

\* list.index(x, start): ValueError is reported as -1
PyIndex(seq, x, start) ==
    LET hits == {i \in start..(Len(seq) - 1) : seq[i + 1] = x}
    IN  IF hits = {} THEN -1 ELSE CHOOSE i \in hits : \A j \in hits : i <= j

\* seq[i] with Python's negative indices; IndexError when out of range
PyInRange(seq, i) == -Len(seq) <= i /\ i < Len(seq)
PyGet(seq, i) == IF i < 0 THEN seq[Len(seq) + i + 1] ELSE seq[i + 1]
PyPos(seq, i) == IF i < 0 THEN Len(seq) + i + 1 ELSE i + 1

Digits == {"0", "1", "2", "3", "4", "5", "6", "7", "8", "9"}

DigitVal(c) ==
    CASE c = "0" -> 0 [] c = "1" -> 1 [] c = "2" -> 2 [] c = "3" -> 3
      [] c = "4" -> 4 [] c = "5" -> 5 [] c = "6" -> 6 [] c = "7" -> 7
      [] c = "8" -> 8 [] c = "9" -> 9

AllDigits(s) == \A k \in 1..Len(s) : s[k] \in Digits

RECURSIVE DigitsVal(_)
DigitsVal(s) ==
    IF Len(s) = 0 THEN 0
    ELSE 10 * DigitsVal(SubSeq(s, 1, Len(s) - 1)) + DigitVal(s[Len(s)])

\* int(s) for the digit strings the grammars capture: ValueError on ''.
PyInt(s) ==
    IF Len(s) > 0 /\ AllDigits(s) THEN Ok(DigitsVal(s)) ELSE Raise("ValueError")

\* Decimal(s) on the literals these inputs hold: an optional sign, digits and
\* at most one fraction ("10", "-5", "10.00", ".50"); anything else (an empty
\* token, words, several tokens) raises InvalidOperation.  An integer literal
\* is the integer; a literal with a fraction is the pair <<integer part,
\* fraction digits>>, kept exact.
Decimal(s) ==
    LET signed == Len(s) > 0 /\ s[1] \in {"-", "+"}
        body   == IF signed THEN SubSeq(s, 2, Len(s)) ELSE s
        dot    == PyFind(body, <<".">>, 0)
        whole  == IF dot = -1 THEN body ELSE PySliceTo(body, dot)
        frac   == IF dot = -1 THEN <<>> ELSE PySliceFrom(body, dot + 1)
        sign   == IF signed /\ s[1] = "-" THEN -1 ELSE 1
    IN  IF Len(whole) + Len(frac) > 0 /\ AllDigits(whole) /\ AllDigits(frac)
        THEN IF dot = -1 THEN Ok(sign * DigitsVal(whole))
             ELSE Ok(<<sign * DigitsVal(whole), frac>>)
        ELSE Raise("InvalidOperation")

(***************************************************************************)
(* The text of the input lines                                             *)
(***************************************************************************)
\* The characters of each line and token the inputs are made of (a TLA+
\* string is atomic to TLC).
Chars(str) ==
    CASE str = "" ->
         <<>>
      [] str = "00FF7F" ->
         <<"0","0","F","F","7","F">>
      [] str = "1.00" ->
         <<"1",".","0","0">>
      [] str = "10" ->
         <<"1","0">>
      [] str = "10.00" ->
         <<"1","0",".","0","0">>
      [] str = "20" ->
         <<"2","0">>
      [] str = "2013/10/04 13:53:27 ET" ->
         <<"2","0","1","3","/","1","0","/","0","4"," ","1","3",":","5","3",":","2","7"," ","E","T">>
      [] str = "2013/10/04 1:53 PM" ->
         <<"2","0","1","3","/","1","0","/","0","4"," ","1",":","5","3"," ","P","M">>
      [] str = "77" ->
         <<"7","7">>
      [] str = "88" ->
         <<"8","8">>
      [] str = "A collected 100 from pot" ->
         <<"A"," ","c","o","l","l","e","c","t","e","d"," ","1","0","0"," ","f","r","o","m"," ","p","o","t">>
      [] str = "A: bets 40" ->
         <<"A",":"," ","b","e","t","s"," ","4","0">>
      [] str = "A: checks" ->
         <<"A",":"," ","c","h","e","c","k","s">>
      [] str = "A: doesn't show hand" ->
         <<"A",":"," ","d","o","e","s","n","'","t"," ","s","h","o","w"," ","h","a","n","d">>
      [] str = "A: folds" ->
         <<"A",":"," ","f","o","l","d","s">>
      [] str = "A: posts small blind 10" ->
         <<"A",":"," ","p","o","s","t","s"," ","s","m","a","l","l"," ","b","l","i","n","d"," ","1","0">>
      [] str = "A: shows [Ah Kd]" ->
         <<"A",":"," ","s","h","o","w","s"," ","[","A","h"," ","K","d","]">>
      [] str = "B collected 40 from pot" ->
         <<"B"," ","c","o","l","l","e","c","t","e","d"," ","4","0"," ","f","r","o","m"," ","p","o","t">>
      [] str = "B has timed out" ->
         <<"B"," ","h","a","s"," ","t","i","m","e","d"," ","o","u","t">>
      [] str = "B: bets 40" ->
         <<"B",":"," ","b","e","t","s"," ","4","0">>
      [] str = "B: calls 20" ->
         <<"B",":"," ","c","a","l","l","s"," ","2","0">>
      [] str = "B: folds" ->
         <<"B",":"," ","f","o","l","d","s">>
      [] str = "B: raises 40 to 80" ->
         <<"B",":"," ","r","a","i","s","e","s"," ","4","0"," ","t","o"," ","8","0">>
      [] str = "Board [2s 3d 4h 5c 6d]" ->
         <<"B","o","a","r","d"," ","[","2","s"," ","3","d"," ","4","h"," ","5","c"," ","6","d","]">>
      [] str = "Board [2s 3d 4h 5c]" ->
         <<"B","o","a","r","d"," ","[","2","s"," ","3","d"," ","4","h"," ","5","c","]">>
      [] str = "Board [2s 3d 4h]" ->
         <<"B","o","a","r","d"," ","[","2","s"," ","3","d"," ","4","h","]">>
      [] str = "Chess" ->
         <<"C","h","e","s","s">>
      [] str = "Dealt to A [Ah Kd]" ->
         <<"D","e","a","l","t"," ","t","o"," ","A"," ","[","A","h"," ","K","d","]">>
      [] str = "Dealt to B [Ah Kd]" ->
         <<"D","e","a","l","t"," ","t","o"," ","B"," ","[","A","h"," ","K","d","]">>
      [] str = "EUR" ->
         <<"E","U","R">>
      [] str = "FLOP" ->
         <<"F","L","O","P">>
      [] str = "HOLE CARDL" ->
         <<"H","O","L","E"," ","C","A","R","D","L">>
      [] str = "Hold'em" ->
         <<"H","o","l","d","'","e","m">>
      [] str = "I" ->
         <<"I">>
      [] str = "No Limit" ->
         <<"N","o"," ","L","i","m","i","t">>
      [] str = "PokerStars Hand #77" ->
         <<"P","o","k","e","r","S","t","a","r","s"," ","H","a","n","d"," ","#","7","7">>
      [] str = "RIVER" ->
         <<"R","I","V","E","R">>
      [] str = "SHOW DOWN" ->
         <<"S","H","O","W"," ","D","O","W","N">>
      [] str = "SUMMARY" ->
         <<"S","U","M","M","A","R","Y">>
      [] str = "Seat 0: A (1500 in chips)" ->
         <<"S","e","a","t"," ","0",":"," ","A"," ","(","1","5","0","0"," ","i","n"," ","c","h","i","p","s",")">>
      [] str = "Seat 0: B (900 in chips)" ->
         <<"S","e","a","t"," ","0",":"," ","B"," ","(","9","0","0"," ","i","n"," ","c","h","i","p","s",")">>
      [] str = "Seat 1: A (1500 in chips)" ->
         <<"S","e","a","t"," ","1",":"," ","A"," ","(","1","5","0","0"," ","i","n"," ","c","h","i","p","s",")">>
      [] str = "Seat 1: A collected (100)" ->
         <<"S","e","a","t"," ","1",":"," ","A"," ","c","o","l","l","e","c","t","e","d"," ","(","1","0","0",")">>
      [] str = "Seat 1: A showed [Ah Kd] and won (50)" ->
         <<"S","e","a","t"," ","1",":"," ","A"," ","s","h","o","w","e","d"," ","[","A","h"," ","K","d","]"," ","a","n","d"," ","w","o","n"," ","(","5","0",")">>
      [] str = "Seat 1: B (900 in chips)" ->
         <<"S","e","a","t"," ","1",":"," ","B"," ","(","9","0","0"," ","i","n"," ","c","h","i","p","s",")">>
      [] str = "Seat 2: A (1500 in chips)" ->
         <<"S","e","a","t"," ","2",":"," ","A"," ","(","1","5","0","0"," ","i","n"," ","c","h","i","p","s",")">>
      [] str = "Seat 2: B (900 in chips)" ->
         <<"S","e","a","t"," ","2",":"," ","B"," ","(","9","0","0"," ","i","n"," ","c","h","i","p","s",")">>
      [] str = "Seat 2: B folded before Flop" ->
         <<"S","e","a","t"," ","2",":"," ","B"," ","f","o","l","d","e","d"," ","b","e","f","o","r","e"," ","F","l","o","p">>
      [] str = "Seat 2: B showed [As Kc] and won (50)" ->
         <<"S","e","a","t"," ","2",":"," ","B"," ","s","h","o","w","e","d"," ","[","A","s"," ","K","c","]"," ","a","n","d"," ","w","o","n"," ","(","5","0",")">>
      [] str = "Seat 2: wonder mucked" ->
         <<"S","e","a","t"," ","2",":"," ","w","o","n","d","e","r"," ","m","u","c","k","e","d">>
      [] str = "Seat 3: A (1500 in chips)" ->
         <<"S","e","a","t"," ","3",":"," ","A"," ","(","1","5","0","0"," ","i","n"," ","c","h","i","p","s",")">>
      [] str = "Seat 3: B (900 in chips)" ->
         <<"S","e","a","t"," ","3",":"," ","B"," ","(","9","0","0"," ","i","n"," ","c","h","i","p","s",")">>
      [] str = "TURN" ->
         <<"T","U","R","N">>
      [] str = "Table 'T1' 2-max Seat #0 is the button" ->
         <<"T","a","b","l","e"," ","'","T","1","'"," ","2","-","m","a","x"," ","S","e","a","t"," ","#","0"," ","i","s"," ","t","h","e"," ","b","u","t","t","o","n">>
      [] str = "Table 'T1' 2-max Seat #1 is the button" ->
         <<"T","a","b","l","e"," ","'","T","1","'"," ","2","-","m","a","x"," ","S","e","a","t"," ","#","1"," ","i","s"," ","t","h","e"," ","b","u","t","t","o","n">>
      [] str = "Table 'T1' 2-max Seat #2 is the button" ->
         <<"T","a","b","l","e"," ","'","T","1","'"," ","2","-","m","a","x"," ","S","e","a","t"," ","#","2"," ","i","s"," ","t","h","e"," ","b","u","t","t","o","n">>
      [] str = "Table 'T1' 2-max Seat #3 is the button" ->
         <<"T","a","b","l","e"," ","'","T","1","'"," ","2","-","m","a","x"," ","S","e","a","t"," ","#","3"," ","i","s"," ","t","h","e"," ","b","u","t","t","o","n">>
      [] str = "Table 'T1' 3-max Seat #0 is the button" ->
         <<"T","a","b","l","e"," ","'","T","1","'"," ","3","-","m","a","x"," ","S","e","a","t"," ","#","0"," ","i","s"," ","t","h","e"," ","b","u","t","t","o","n">>
      [] str = "Table 'T1' 3-max Seat #1 is the button" ->
         <<"T","a","b","l","e"," ","'","T","1","'"," ","3","-","m","a","x"," ","S","e","a","t"," ","#","1"," ","i","s"," ","t","h","e"," ","b","u","t","t","o","n">>
      [] str = "Table 'T1' 3-max Seat #2 is the button" ->
         <<"T","a","b","l","e"," ","'","T","1","'"," ","3","-","m","a","x"," ","S","e","a","t"," ","#","2"," ","i","s"," ","t","h","e"," ","b","u","t","t","o","n">>
      [] str = "Table 'T1' 3-max Seat #3 is the button" ->
         <<"T","a","b","l","e"," ","'","T","1","'"," ","3","-","m","a","x"," ","S","e","a","t"," ","#","3"," ","i","s"," ","t","h","e"," ","b","u","t","t","o","n">>
      [] str = "Total pot 100 | Rake 0" ->
         <<"T","o","t","a","l"," ","p","o","t"," ","1","0","0"," ","|"," ","R","a","k","e"," ","0">>
      [] str = "Tournament" ->
         <<"T","o","u","r","n","a","m","e","n","t">>
      [] str = "USD" ->
         <<"U","S","D">>
      [] str = "Uncalled bet (20) returned to A" ->
         <<"U","n","c","a","l","l","e","d"," ","b","e","t"," ","(","2","0",")"," ","r","e","t","u","r","n","e","d"," ","t","o"," ","A">>
      [] str = "Uncalled bet (20) returned to collected" ->
         <<"U","n","c","a","l","l","e","d"," ","b","e","t"," ","(","2","0",")"," ","r","e","t","u","r","n","e","d"," ","t","o"," ","c","o","l","l","e","c","t","e","d">>
      [] str = "XI" ->
         <<"X","I">>
      [] str = "[2s 3d 4h 5c] [6d]" ->
         <<"[","2","s"," ","3","d"," ","4","h"," ","5","c","]"," ","[","6","d","]">>
      [] str = "[2s 3d 4h]" ->
         <<"[","2","s"," ","3","d"," ","4","h","]">>
      [] str = "[2s 3d 4h] [5c]" ->
         <<"[","2","s"," ","3","d"," ","4","h","]"," ","[","5","c","]">>
      [] str = "[2s 3d xx]" ->
         <<"[","2","s"," ","3","d"," ","x","x","]">>
      [] str = "collected: doesn't show hand" ->
         <<"c","o","l","l","e","c","t","e","d",":"," ","d","o","e","s","n","'","t"," ","s","h","o","w"," ","h","a","n","d">>
      [] str = "ff0000" ->
         <<"f","f","0","0","0","0">>
      [] str = "red" ->
         <<"r","e","d">>
      [] str = "x" ->
         <<"x">>

(***************************************************************************)
(* Collaborators: Card, Combo, the Action / Game lookup tables             *)
(***************************************************************************)
Ranks == {"2", "3", "4", "5", "6", "7", "8", "9", "T", "J", "Q", "K", "A"}
Suits == {"c", "d", "h", "s"}

\* Card(token): a rank and a suit, else ValueError
Card(tok) ==
    IF Len(tok) = 2 /\ tok[1] \in Ranks /\ tok[2] \in Suits
    THEN Ok(tok) ELSE Raise("ValueError")

\* Combo(two card tokens joined)
Combo(tok) ==
    IF Len(tok) = 4 /\ IsOk(Card(SubSeq(tok, 1, 2))) /\ IsOk(Card(SubSeq(tok, 3, 4)))
    THEN Ok(tok) ELSE Raise("ValueError")

\* Action(verb): the closed enumeration of action keywords, queried by exact key
Action(verb) ==
    CASE verb = <<"b","e","t","s">>   -> Ok("BET")
      [] verb = <<"r","a","i","s","e","s">> -> Ok("RAISE")
      [] verb = <<"c","a","l","l","s">>  -> Ok("CALL")
      [] verb = <<"c","h","e","c","k","s">> -> Ok("CHECK")
      [] verb = <<"f","o","l","d","s">>  -> Ok("FOLD")
      [] OTHER            -> Raise("ValueError")

(***************************************************************************)
(* class _Flop                                                             *)
(***************************************************************************)
\* The object before __init__ has run.
NoFlop == [initial_pot |-> 0, pot |-> 0, actions |-> Unassigned, cards |-> Unassigned]

\* _Flop._parse_cards
_parse_cards(boardline) ==
    LET c1 == Card(PySlice(boardline, 1, 3))
        c2 == Card(PySlice(boardline, 4, 6))
        c3 == Card(PySlice(boardline, 7, 9))
    IN  IF IsOk(c1) /\ IsOk(c2) /\ IsOk(c3)
        THEN Ok(<<c1[2], c2[2], c3[2]>>) ELSE Raise("ValueError")

\* _Flop._parse_uncalled
_parse_uncalled(self, line) ==
    LET first_paren_index  == PyFind(line, <<"(">>, 0)
        second_paren_index == PyFind(line, <<")">>, 0)
        amount == PySlice(line, first_paren_index + 1, second_paren_index)
        name_start_index == PyFind(line, <<"t","o"," ">>, 0) + 3
        name == PySliceFrom(line, name_start_index)
        dec  == Decimal(amount)
    IN  [self |-> self,
         res  |-> IF IsOk(dec) THEN Ok(<<name, "RETURN", dec[2]>>) ELSE dec]

\* _Flop._parse_collected
_parse_collected(self, line) ==
    LET first_space_index  == PyFind(line, <<" ">>, 0)
        name == PySliceTo(line, first_space_index)
        second_space_index == PyFind(line, <<" ">>, first_space_index + 1)
        third_space_index  == PyFind(line, <<" ">>, second_space_index + 1)
        amount == PySlice(line, second_space_index + 1, third_space_index)
        dec    == Decimal(amount)
        pot    == self.initial_pot + dec[2]
    IN  IF IsOk(dec)
        THEN [self |-> [self EXCEPT !.pot = pot], res |-> Ok(<<name, "WIN", pot>>)]
        ELSE [self |-> self, res |-> dec]

\* _Flop._parse_muck
_parse_muck(self, line) ==
    LET colon_index == PyFind(line, <<":">>, 0)
        name == PySliceTo(line, colon_index)
    IN  [self |-> self, res |-> Ok(<<name, "MUCK">>)]

\* _Flop._parse_player_action
_parse_player_action(self, line) ==
    LET colon_index == PyFind(line, <<":">>, 0)
        name  == PySliceTo(line, colon_index)
        found == PyFind(line, <<" ">>, colon_index + 2)
        verb  == IF found = -1 THEN PySliceFrom(line, colon_index + 2)
                 ELSE PySlice(line, colon_index + 2, found)
        action == Action(verb)
        \* `if end_action_index:` is false for None and for 0
        amount == Decimal(PySliceFrom(line, found + 1))
    IN  [self |-> self,
         res  |-> IF ~IsOk(action) THEN action
                  ELSE IF found # -1 /\ found # 0
                       THEN IF IsOk(amount) THEN Ok(<<name, action[2], amount[2]>>)
                            ELSE amount
                       ELSE Ok(<<name, action[2]>>)]

\* The if/elif chain of _Flop._parse_actions tried with 'collected' first.
_parse_actions_line_collected_first(self, line) ==
    IF Contains(line, <<"c","o","l","l","e","c","t","e","d">>) THEN _parse_collected(self, line)
    ELSE IF StartsWith(line, <<"U","n","c","a","l","l","e","d"," ","b","e","t">>) THEN _parse_uncalled(self, line)
    ELSE IF Contains(line, <<"d","o","e","s","n","'","t"," ","s","h","o","w"," ","h","a","n","d">>) THEN _parse_muck(self, line)
    ELSE IF Contains(line, <<":">>) THEN _parse_player_action(self, line)
    ELSE [self |-> self, res |-> Raise("RuntimeError")]

\* One iteration of the loop of _Flop._parse_actions: the if/elif chain.
_parse_actions_line(self, line) ==
    IF StartsWith(line, <<"U","n","c","a","l","l","e","d"," ","b","e","t">>) THEN _parse_uncalled(self, line)
    ELSE IF Contains(line, <<"c","o","l","l","e","c","t","e","d">>) THEN _parse_collected(self, line)
    ELSE IF Contains(line, <<"d","o","e","s","n","'","t"," ","s","h","o","w"," ","h","a","n","d">>) THEN _parse_muck(self, line)
    ELSE IF Contains(line, <<":">>) THEN _parse_player_action(self, line)
    ELSE [self |-> self, res |-> Raise("RuntimeError")]

\* The loop of _Flop._parse_actions over lines k.., with the actions so far;
\* _parse_actions_next continues it after the outcome r of line k.
RECURSIVE _parse_actions_loop(_, _, _, _), _parse_actions_next(_, _, _, _)
_parse_actions_next(r, actionlines, k, acc) ==
    IF IsOk(r.res)
    THEN _parse_actions_loop(r.self, actionlines, k + 1, Append(acc, r.res[2]))
    ELSE r

_parse_actions_loop(self, actionlines, k, acc) ==
    IF k > Len(actionlines)
    THEN [self |-> self, res |-> Ok(acc)]
    ELSE _parse_actions_next(_parse_actions_line(self, actionlines[k]),
                             actionlines, k, acc)

\* self.actions = tuple(actions) if actions else None
ActionsAttr(acc) == IF Len(acc) > 0 THEN Val(acc) ELSE None

\* The object after self._parse_cards(flop[0]) returned cards c.
_Flop_cards(self0, c) ==
    IF IsOk(c)
    THEN [self |-> [self0 EXCEPT !.cards = Val(c[2])], res |-> Ok(<<>>)]
    ELSE [self |-> self0, res |-> c]

\* _Flop.__init__ up to and including _parse_cards(flop[0])
_Flop_begin(floplines, pot0) ==
    IF Len(floplines) = 0
    THEN [self |-> [initial_pot |-> pot0, pot |-> pot0, actions |-> None, cards |-> None],
          res  |-> Raise("IndexError")]
    ELSE _Flop_cards([initial_pot |-> pot0, pot |-> pot0, actions |-> None, cards |-> None],
                     _parse_cards(floplines[1]))

\* The end of _parse_actions: r is what the loop left.
_Flop_end(r) ==
    IF IsOk(r.res)
    THEN [self |-> [r.self EXCEPT !.actions = ActionsAttr(r.res[2])], res |-> Ok(<<>>)]
    ELSE r

\* self._parse_actions(flop[1:]) after the beginning b of __init__
_Flop_actions(b, floplines) ==
    IF IsOk(b.res)
    THEN _Flop_end(_parse_actions_loop(b.self, PySliceFrom(floplines, 1), 1, <<>>))
    ELSE b

\* _Flop(flop, initial_pot): the whole constructor
_Flop(floplines, pot0) == _Flop_actions(_Flop_begin(floplines, pot0), floplines)

(***************************************************************************)
(* The hand object                                                         *)
(***************************************************************************)
HeaderFields == {"game_type", "sb", "bb", "buyin", "rake", "date", "game", "limit",
                 "ident", "tournament_ident", "tournament_level", "currency"}

\* The attributes each group of stages reads or writes.
FlopFields == {"flop"}
SeatFields == {"_table_match", "table_name", "max_players", "players", "button", "hero"}
StreetFields == {"preflop_actions", "flop", "turn", "river", "turn_actions",
                 "river_actions", "show_down", "total_pot", "winners"}

\* The object as _BaseHandHistory.__init__ leaves it, seen through the
\* attributes in F.
NewHand(F) ==
    [f \in F \cup {"header_parsed"} |->
        IF f = "header_parsed" THEN Val(FALSE) ELSE Unassigned]

NoRoot == [labels |-> <<>>, notes |-> <<>>]
NoMatch == <<"nomatch">>

\* self._sections: the indices of the empty elements of self._splitted
_sections(lines) == {i \in 0..(Len(lines) - 1) : lines[i + 1] = <<>>}
FirstSection(lines) == CHOOSE i \in _sections(lines) : \A j \in _sections(lines) : i <= j
LastSection(lines) == CHOOSE i \in _sections(lines) : \A j \in _sections(lines) : j <= i

(***************************************************************************)
(* _parse_flop, one action line of the flop at a time                      *)
(***************************************************************************)
\* The lines a flop section is made of.
FlopCardLine == "[2s 3d 4h]"

ActionCorpus == {
    "Uncalled bet (20) returned to A",
    "Uncalled bet (20) returned to collected",
    "A collected 100 from pot",
    "B collected 40 from pot",
    "A: doesn't show hand",
    "collected: doesn't show hand",
    "A: checks",
    "B: bets 40",
    "B: raises 40 to 80",
    "B has timed out" }

MaxActionLines == 2

RECURSIVE SeqsUpTo(_, _)
SeqsUpTo(S, n) ==
    IF n = 0 THEN {<<>>}
    ELSE LET shorter == SeqsUpTo(S, n - 1)
         IN  shorter \cup {Append(s, x) : s \in shorter, x \in S}

FlopSections ==
    {<<"A: folds", "", "FLOP", FlopCardLine>> \o ls \o <<"", "SUMMARY">> :
        ls \in SeqsUpTo(ActionCorpus, MaxActionLines)}
    \cup {<<"A: folds", "", "SUMMARY">>,
          <<"A: folds", "", "FLOP", "[2s 3d xx]", "A: checks", "", "SUMMARY">>}

InitialPots == {0, 50}

\* self._splitted as text: the characters of each line
Text == [i \in 1..Len(splitted) |-> Chars(splitted[i])]

\* floplines = self._splitted[start:stop]
FlopStart(lines) == PyIndex(lines, <<"F","L","O","P">>, 0) + 1
FlopStop(lines) == PyIndex(lines, <<>>, FlopStart(lines))
FlopLines(lines) == PySlice(lines, FlopStart(lines), FlopStop(lines))
FlopActionLines(lines) == PySliceFrom(FlopLines(lines), 1)

InitFlop ==
    /\ pc = "flop"
    /\ err = ""
    /\ splitted \in FlopSections
    /\ match = NoMatch
    /\ initial_pot \in InitialPots
    /\ hand = NewHand(FlopFields)
    /\ flop = NoFlop
    /\ actions = <<>>
    /\ root = NoRoot
    /\ given = <<>>

\* The state after _Flop.__init__ got through _parse_cards with outcome b.
FlopBegun(b) ==
    /\ flop' = b.self
    /\ pc' = IF IsOk(b.res) THEN "actions" ELSE "failed"
    /\ err' = IF IsOk(b.res) THEN "" ELSE b.res[2]
    /\ UNCHANGED hand

\* _parse_flop up to the call of _Flop._parse_actions
FlopBegin ==
    /\ pc = "flop"
    /\ UNCHANGED <<splitted, match, initial_pot, actions, root, given>>
    /\ IF PyIndex(Text, <<"F","L","O","P">>, 0) = -1
       THEN /\ hand' = [hand EXCEPT !.flop = None]
            /\ pc' = "done"
            /\ UNCHANGED <<err, flop>>
       ELSE IF FlopStop(Text) = -1
       THEN /\ pc' = "failed"
            /\ err' = "ValueError"
            /\ UNCHANGED <<hand, flop>>
       ELSE FlopBegun(_Flop_begin(FlopLines(Text), initial_pot))

\* The state after one iteration of the loop with outcome r.
FlopLineDone(r) ==
    /\ flop' = r.self
    /\ IF IsOk(r.res)
       THEN /\ actions' = Append(actions, r.res[2])
            /\ UNCHANGED <<pc, err>>
       ELSE /\ pc' = "failed"
            /\ err' = r.res[2]
            /\ UNCHANGED actions

\* One iteration of the loop of _Flop._parse_actions
FlopActionLine ==
    /\ pc = "actions"
    /\ Len(actions) < Len(FlopActionLines(Text))
    /\ FlopLineDone(_parse_actions_line(flop, FlopActionLines(Text)[Len(actions) + 1]))
    /\ UNCHANGED <<splitted, match, initial_pot, hand, root, given>>

\* The end of _Flop._parse_actions, of _Flop.__init__ and of _parse_flop
FlopEnd ==
    /\ pc = "actions"
    /\ Len(actions) = Len(FlopActionLines(Text))
    /\ flop' = [flop EXCEPT !.actions = ActionsAttr(actions)]
    /\ hand' = [hand EXCEPT !.flop = Val(flop')]
    /\ pc' = "done"
    /\ UNCHANGED <<err, splitted, match, initial_pot, actions, root, given>>

NextFlop == FlopBegin \/ FlopActionLine \/ FlopEnd

SpecFlop == InitFlop /\ [][NextFlop]_vars

(***************************************************************************)
(* Properties of the flop sub-parser (SpecFlop)                            *)
(***************************************************************************)
\* Whether the flop section was found and its cards parsed, so that the
\* loop over the action lines has started.
FlopLoopStarted == pc \in {"actions", "failed", "done"} /\ IsVal(flop.cards)

\* The classification rules in the order the specification lists them.
MatchesRule(line, r) ==
    CASE r = 1 -> StartsWith(line, <<"U","n","c","a","l","l","e","d"," ","b","e","t">>)
      [] r = 2 -> Contains(line, <<"c","o","l","l","e","c","t","e","d">>)
      [] r = 3 -> Contains(line, <<"d","o","e","s","n","'","t"," ","s","h","o","w"," ","h","a","n","d">>)
      [] r = 4 -> Contains(line, <<":">>)

FirstRule(line) ==
    IF \E r \in 1..4 : MatchesRule(line, r)
    THEN CHOOSE r \in 1..4 :
            MatchesRule(line, r) /\ \A q \in 1..4 : MatchesRule(line, q) => r <= q
    ELSE 5

RuleOutcome(self, line) ==
    CASE FirstRule(line) = 1 -> _parse_uncalled(self, line).res
      [] FirstRule(line) = 2 -> _parse_collected(self, line).res
      [] FirstRule(line) = 3 -> _parse_muck(self, line).res
      [] FirstRule(line) = 4 -> _parse_player_action(self, line).res
      [] FirstRule(line) = 5 -> Raise("RuntimeError")

RuleKinds(r) ==
    CASE r = 1 -> {"RETURN"}
      [] r = 2 -> {"WIN"}
      [] r = 3 -> {"MUCK"}
      [] r = 4 -> {"BET", "RAISE", "CALL", "CHECK", "FOLD"}
      [] r = 5 -> {}

\* C2: every action line handed to the flop action parser is decided by the
\* first rule that matches it, in the order Uncalled bet, collected, doesn't
\* show hand, ':' -- each recorded action is the outcome of that rule's
\* parser and of its kind; a parse that stops at a line stops because that
\* rule's parser (or the absence of any rule) raises; no line is skipped;
\* and a failed parse produces no flop and no action sequence.
C2_FirstMatchingRuleDecides ==
    FlopLoopStarted =>
        LET ls == FlopActionLines(Text)
        IN  /\ Len(actions) <= Len(ls)
            /\ \A k \in 1..Len(actions) :
                  /\ RuleOutcome(flop, ls[k]) = Ok(actions[k])
                  /\ actions[k][2] \in RuleKinds(FirstRule(ls[k]))
            /\ pc = "failed" =>
                  /\ Len(actions) < Len(ls)
                  /\ ~IsOk(RuleOutcome(flop, ls[Len(actions) + 1]))
                  /\ err = RuleOutcome(flop, ls[Len(actions) + 1])[2]
                  /\ flop.actions = None
                  /\ hand.flop = Unassigned
            /\ pc = "done" =>
                  /\ Len(actions) = Len(ls)
                  /\ hand.flop = Val(flop)
                  /\ flop.actions = ActionsAttr(actions)

\* C2 witness: a line matching rules 1 and 2 was recorded as a Return, and
\* the next line, matching no rule, ended the parse with an error.
C2_Witness ==
    /\ FlopLoopStarted
    /\ pc = "failed"
    /\ err = "RuntimeError"
    /\ Len(actions) = 1
    /\ actions[1][2] = "RETURN"
    /\ MatchesRule(FlopActionLines(Text)[1], 2)
    /\ FirstRule(FlopActionLines(Text)[2]) = 5

\* The chip amount written on a 'collected' line: the token after the word.
CollectedAmount(line) ==
    LET from == PyFind(line, <<"c","o","l","l","e","c","t","e","d"," ">>, 0) + 10
        to   == PyFind(line, <<" ">>, from)
    IN  Decimal(PySlice(line, from, IF to = -1 THEN Len(line) ELSE to))[2]

\* C3: for every 'collected' line the flop sub-parser processed, whatever pot
\* was carried into the flop, the recorded Win action carries the player's
\* name and the amount written on the line, and the flop's pot becomes the
\* carried-in pot plus that amount.
C3_WinCarriesCollectedAmount ==
    FlopLoopStarted =>
        LET ls == FlopActionLines(Text)
        IN  \A k \in 1..Len(actions) :
                FirstRule(ls[k]) = 2 =>
                    /\ actions[k][1] = PySliceTo(ls[k], PyFind(ls[k], <<" ">>, 0))
                    /\ actions[k][2] = "WIN"
                    /\ actions[k][3] = CollectedAmount(ls[k])
                    /\ (k = Len(actions) =>
                           flop.pot = flop.initial_pot + CollectedAmount(ls[k]))

\* C4: the flop's pot starts at the pot resolved at the end of preflop, never
\* decreases from one processed action line to the next, is left unchanged
\* by every line that is not a 'collected' line, and ends at or above the
\* preflop pot.
C4_PotMonotonic ==
    [][ /\ (pc = "flop" /\ pc' = "actions") => flop'.pot = initial_pot
        /\ pc = "actions" => flop'.pot >= flop.pot
        /\ (pc = "actions" /\ Len(actions') > Len(actions)
               /\ actions'[Len(actions')][2] # "WIN") => flop'.pot = flop.pot
        /\ (pc = "actions" /\ pc' = "done") => flop'.pot >= initial_pot ]_vars

(***************************************************************************)
(* parse_header                                                            *)
(***************************************************************************)
\* GameType(token), Limit(token), Currency(token), Game(token): the closed
\* enumerations, queried by exact key.
GameType(tok) == IF tok = <<"T","o","u","r","n","a","m","e","n","t">> THEN Ok("TOUR") ELSE Raise("ValueError")
Limit(tok) == IF tok = <<"N","o"," ","L","i","m","i","t">> THEN Ok("NL") ELSE Raise("ValueError")
Currency(tok) ==
    CASE tok = <<"U","S","D">> -> Ok("USD")
      [] tok = <<"E","U","R">> -> Ok("EUR")
      [] OTHER        -> Raise("ValueError")
Game(tok) ==
    CASE tok = <<"H","o","l","d","'","e","m">> -> Ok("HOLDEM")
      [] tok = <<"O","m","a","h","a">>   -> Ok("OMAHA")
      [] OTHER            -> Raise("ValueError")

\* _parse_date: strptime(token, date_format) with date_format
\* '%Y/%m/%d %H:%M:%S ET'; the value kept is the parsed wall-clock time.
_parse_date(tok) ==
    LET num(a, b) == DigitsVal(PySlice(tok, a, b))
        shape == /\ Len(tok) = 22
                 /\ AllDigits(PySlice(tok, 0, 4)) /\ tok[5] = "/"
                 /\ AllDigits(PySlice(tok, 5, 7)) /\ tok[8] = "/"
                 /\ AllDigits(PySlice(tok, 8, 10)) /\ tok[11] = " "
                 /\ AllDigits(PySlice(tok, 11, 13)) /\ tok[14] = ":"
                 /\ AllDigits(PySlice(tok, 14, 16)) /\ tok[17] = ":"
                 /\ AllDigits(PySlice(tok, 17, 19))
                 /\ PySliceFrom(tok, 19) = <<" ","E","T">>
    IN  IF /\ shape
           /\ num(5, 7) \in 1..12 /\ num(8, 10) \in 1..31
           /\ num(11, 13) < 24 /\ num(14, 16) < 60 /\ num(17, 19) < 62
        THEN Ok(<<num(0, 4), num(5, 7), num(8, 10), num(11, 13), num(14, 16), num(17, 19)>>)
        ELSE Raise("ValueError")

\* The assignments of parse_header in the order the code makes them, each
\* with the outcome of its conversion.
HeaderAssignments(g) == <<
    <<"game_type", GameType(Chars(g.game_type))>>,
    <<"sb", Decimal(Chars(g.sb))>>,
    <<"bb", Decimal(Chars(g.bb))>>,
    <<"buyin", Decimal(Chars(g.buyin))>>,
    <<"rake", Decimal(Chars(g.rake))>>,
    <<"date", _parse_date(Chars(g.date))>>,
    <<"game", Game(Chars(g.game))>>,
    <<"limit", Limit(Chars(g.limit))>>,
    <<"ident", Ok(Chars(g.ident))>>,
    <<"tournament_ident", Ok(Chars(g.tournament_ident))>>,
    <<"tournament_level", Ok(Chars(g.tournament_level))>>,
    <<"currency", Currency(Chars(g.currency))>> >>

\* The number of assignments made before the first conversion that raises.
AssignedBeforeRaise(as) ==
    IF \A k \in 1..Len(as) : IsOk(as[k][2]) THEN Len(as)
    ELSE (CHOOSE k \in 1..Len(as) :
             ~IsOk(as[k][2]) /\ \A j \in 1..(k - 1) : IsOk(as[j][2])) - 1

\* The hand after the first n assignments.
AssignFirst(h, as, n) ==
    [f \in DOMAIN h |->
        IF \E k \in 1..n : as[k][1] = f
        THEN Val(as[CHOOSE k \in 1..n : as[k][1] = f][2][2])
        ELSE h[f]]

HeaderLevels == {"I", "XI"}
HeaderBlinds == {"10", "20", "x", ""}
HeaderDates == {"2013/10/04 13:53:27 ET", "2013/10/04 1:53 PM"}
HeaderGames == {"Hold'em", "Chess"}

\* What _header_re.match can return on the first line: no match, or the
\* captured groups, each within the sub-pattern of its group.
HeaderMatches ==
    {NoMatch} \cup
    {<<"match", [ident |-> "77", game_type |-> "Tournament",
                 tournament_ident |-> "88", buyin |-> "10.00", rake |-> "1.00",
                 currency |-> c, game |-> g, limit |-> "No Limit",
                 tournament_level |-> l, sb |-> sb, bb |-> bb, date |-> d]>> :
        c \in {"USD", "EUR"}, g \in HeaderGames, l \in HeaderLevels,
        sb \in HeaderBlinds, bb \in HeaderBlinds, d \in HeaderDates}

InitHeader ==
    /\ pc = "header"
    /\ err = ""
    /\ splitted = <<>>
    /\ match \in HeaderMatches
    /\ initial_pot = 0
    /\ hand = NewHand(HeaderFields)
    /\ flop = NoFlop
    /\ actions = <<>>
    /\ root = NoRoot
    /\ given = <<>>

parse_header ==
    /\ pc = "header"
    /\ UNCHANGED <<splitted, match, initial_pot, flop, actions, root, given>>
    /\ IF match = NoMatch
       THEN \* match is None: match.group raises AttributeError
            /\ pc' = "failed"
            /\ err' = "AttributeError"
            /\ UNCHANGED hand
       ELSE LET as == HeaderAssignments(match[2])
                n  == AssignedBeforeRaise(as)
                h1 == AssignFirst(hand, as, n)
            IN  IF n = Len(as)
                THEN /\ hand' = [h1 EXCEPT !.header_parsed = Val(TRUE)]
                     /\ pc' = "done"
                     /\ UNCHANGED err
                ELSE /\ hand' = h1
                     /\ pc' = "failed"
                     /\ err' = as[n + 1][2][2]

NextHeader == parse_header

SpecHeader == InitHeader /\ [][NextHeader]_vars

\* C1: a failed header parse is atomic -- whenever parse_header fails, an
\* error is raised, header_parsed stays false and none of the header fields
\* has been assigned on the hand object.
C1_FailedHeaderParseIsAtomic ==
    pc = "failed" =>
        /\ err # ""
        /\ hand.header_parsed = Val(FALSE)
        /\ \A f \in HeaderFields : hand[f] = Unassigned

(***************************************************************************)
(* _parse_table, _parse_players, _parse_button, _parse_hero                *)
(***************************************************************************)
DigitChar(n) ==
    CASE n = 0 -> "0" [] n = 1 -> "1" [] n = 2 -> "2" [] n = 3 -> "3"
      [] n = 4 -> "4" [] n = 5 -> "5" [] n = 6 -> "6" [] n = 7 -> "7"
      [] n = 8 -> "8" [] n = 9 -> "9"

\* _table_re.match(line):
\*   ^Table '(.*)' (\d)-max Seat #(?P<button>\d) is the button$
\* The text after the name has a fixed length, so the groups are found
\* from the end of the line.
_table_re(line) ==
    LET n == Len(line)
    IN  IF /\ n >= 36
           /\ StartsWith(line, <<"T","a","b","l","e"," ","'">>)
           /\ EndsWith(line, <<" ","i","s"," ","t","h","e"," ","b","u","t","t","o","n">>)
           /\ line[n - 14] \in Digits
           /\ PySlice(line, n - 26, n - 15) = <<"-","m","a","x"," ","S","e","a","t"," ","#">>
           /\ line[n - 26] \in Digits
           /\ PySlice(line, n - 29, n - 27) = <<"'"," ">>
        THEN <<"match", [name   |-> PySlice(line, 7, n - 29),
                         max    |-> <<line[n - 26]>>,
                         button |-> <<line[n - 14]>>]>>
        ELSE NoMatch

\* The run of digits that ends string s.
RECURSIVE TrailingDigits(_)
TrailingDigits(s) ==
    IF Len(s) > 0 /\ s[Len(s)] \in Digits
    THEN Append(TrailingDigits(SubSeq(s, 1, Len(s) - 1)), s[Len(s)])
    ELSE <<>>

\* _seat_re.match(line):
\*   ^Seat (?P<seat>\d): (?P<name>.*) \((?P<stack>\d*) in chips\)$
_seat_re(line) ==
    LET body  == PySlice(line, 8, Len(line) - 10)
        stack == TrailingDigits(body)
        rest  == PySliceTo(body, Len(body) - Len(stack))
    IN  IF /\ StartsWith(line, <<"S","e","a","t"," ">>)
           /\ Len(line) >= 20
           /\ line[6] \in Digits
           /\ PySlice(line, 6, 8) = <<":"," ">>
           /\ EndsWith(line, <<" ","i","n"," ","c","h","i","p","s",")">>)
           /\ EndsWith(rest, <<" ","(">>)
        THEN <<"match", [seat  |-> <<line[6]>>,
                         name  |-> PySliceTo(rest, Len(rest) - 2),
                         stack |-> stack]>>
        ELSE NoMatch

\* _hero_re.match(line):  ^Dealt to (?P<hero_name>.*) \[(..) (..)\]$
_hero_re(line) ==
    LET n == Len(line)
    IN  IF /\ n >= 17
           /\ StartsWith(line, <<"D","e","a","l","t"," ","t","o"," ">>)
           /\ PySlice(line, n - 8, n - 6) = <<" ","[">>
           /\ line[n - 3] = " "
           /\ line[n] = "]"
        THEN <<"match", [hero_name |-> PySlice(line, 9, n - 8),
                         card1     |-> PySlice(line, n - 6, n - 4),
                         card2     |-> PySlice(line, n - 3, n - 1)]>>
        ELSE NoMatch

\* A _Player record.  oid is the identity of the Python object: two
\* references are the same object exactly when the oids are equal.
_Player(oid, name, stack, seat, combo) ==
    [oid |-> oid, name |-> name, stack |-> stack, seat |-> seat, combo |-> combo]

\* _init_seats(n): one unfilled placeholder per seat
_init_seats(n) ==
    [i \in 1..n |-> _Player(<<"empty", i>>, <<"E","m","p","t","y"," ","S","e","a","t"," ">> \o <<DigitChar(i)>>, 0, i, None)]

IsPlaceholder(p) == p.oid[1] = "empty"

\* The loop of _parse_players over lines k.. of self._splitted
RECURSIVE _parse_players_loop(_, _, _)
_parse_players_loop(players, lines, k) ==
    IF k > Len(lines) THEN Ok(players)
    ELSE LET m == _seat_re(lines[k])
         IN  IF m = NoMatch THEN Ok(players)    \* break
             ELSE LET index == PyInt(m[2].seat)[2] - 1
                      stack == PyInt(m[2].stack)
                  IN  IF ~IsOk(stack) THEN stack
                      ELSE IF ~PyInRange(players, index) THEN Raise("IndexError")
                      ELSE _parse_players_loop(
                              [players EXCEPT ![PyPos(players, index)] =
                                  _Player(<<"line", k>>, m[2].name, stack[2],
                                          PyInt(m[2].seat)[2], None)],
                              lines, k + 1)

\* _get_hero_from_players(name): the first player of that name and its index
_get_hero_from_players(players, name) ==
    LET hits == {i \in 1..Len(players) : players[i].name = name}
    IN  IF hits = {} THEN Raise("ValueError")
        ELSE Ok(CHOOSE i \in hits : \A j \in hits : i <= j)

MaxSeatLines == 2

TableLines == {
    "Table 'T1' 2-max Seat #0 is the button",
    "Table 'T1' 2-max Seat #1 is the button",
    "Table 'T1' 2-max Seat #2 is the button",
    "Table 'T1' 2-max Seat #3 is the button",
    "Table 'T1' 3-max Seat #0 is the button",
    "Table 'T1' 3-max Seat #1 is the button",
    "Table 'T1' 3-max Seat #2 is the button",
    "Table 'T1' 3-max Seat #3 is the button" }

SeatLines == {
    "Seat 0: A (1500 in chips)", "Seat 0: B (900 in chips)",
    "Seat 1: A (1500 in chips)", "Seat 1: B (900 in chips)",
    "Seat 2: A (1500 in chips)", "Seat 2: B (900 in chips)",
    "Seat 3: A (1500 in chips)", "Seat 3: B (900 in chips)" }

HeroLines == {"Dealt to A [Ah Kd]", "Dealt to B [Ah Kd]"}

SeatsUpTo == SeqsUpTo(SeatLines, MaxSeatLines)

SeatHands ==
    {<<"PokerStars Hand #77", t>> \o ss
        \o <<"A: posts small blind 10", "", "HOLE CARDL", h, "B: folds",
             "", "SUMMARY">> :
        t \in TableLines, ss \in SeatsUpTo, h \in HeroLines}

InitSeats ==
    /\ pc = "table"
    /\ err = ""
    /\ splitted \in SeatHands
    /\ match = NoMatch
    /\ initial_pot = 0
    /\ hand = NewHand(SeatFields)
    /\ flop = NoFlop
    /\ actions = <<>>
    /\ root = NoRoot
    /\ given = <<>>

Fail(e) == pc' = "failed" /\ err' = e

_parse_table ==
    /\ pc = "table"
    /\ UNCHANGED <<splitted, match, initial_pot, flop, actions, root, given>>
    /\ LET m == _table_re(Text[2])
       IN  IF m = NoMatch
           THEN /\ Fail("AttributeError")
                /\ hand' = [hand EXCEPT !._table_match = None]
           ELSE /\ hand' = [hand EXCEPT !._table_match = Val(m[2]),
                                        !.table_name = Val(m[2].name),
                                        !.max_players = Val(PyInt(m[2].max)[2])]
                /\ pc' = "players"
                /\ UNCHANGED err

_parse_players ==
    /\ pc = "players"
    /\ UNCHANGED <<splitted, match, initial_pot, flop, actions, root, given>>
    /\ LET r == _parse_players_loop(_init_seats(hand.max_players[2]),
                                   PySliceFrom(Text, 2), 1)
       IN  IF IsOk(r)
           THEN /\ hand' = [hand EXCEPT !.players = Val(r[2])]
                /\ pc' = "button"
                /\ UNCHANGED err
           ELSE \* players already written before the raise are not kept
                \* apart here: the parse is over
                /\ Fail(r[2])
                /\ UNCHANGED hand

_parse_button ==
    /\ pc = "button"
    /\ UNCHANGED <<splitted, match, initial_pot, flop, actions, root, given>>
    /\ LET button_seat == PyInt(hand._table_match[2].button)[2]
           players == hand.players[2]
       IN  IF PyInRange(players, button_seat - 1)
           THEN /\ hand' = [hand EXCEPT !.button = Val(PyGet(players, button_seat - 1))]
                /\ pc' = "hero"
                /\ UNCHANGED err
           ELSE /\ Fail("IndexError")
                /\ UNCHANGED hand

_parse_hero ==
    /\ pc = "hero"
    /\ UNCHANGED <<splitted, match, initial_pot, flop, actions, root, given>>
    /\ LET hole_cards_line == PyGet(Text, FirstSection(Text) + 2)
           m == _hero_re(hole_cards_line)
           players == hand.players[2]
           found == _get_hero_from_players(players, m[2].hero_name)
           combo == Combo(m[2].card1 \o m[2].card2)
           hero  == [players[found[2]] EXCEPT
                        !.combo = Val(combo[2]), !.oid = <<"replaced", found[2]>>]
       IN  IF m = NoMatch THEN Fail("AttributeError") /\ UNCHANGED hand
           ELSE IF ~IsOk(found) THEN Fail(found[2]) /\ UNCHANGED hand
           ELSE IF ~IsOk(combo) THEN Fail(combo[2]) /\ UNCHANGED hand
           ELSE /\ hand' = [hand EXCEPT
                               !.hero = Val(hero),
                               !.players = Val([players EXCEPT ![found[2]] = hero]),
                               !.button = IF hand.button[2].name = hero.name
                                          THEN Val(hero) ELSE @]
                /\ pc' = "done"
                /\ UNCHANGED err

NextSeats == _parse_table \/ _parse_players \/ _parse_button \/ _parse_hero

SpecSeats == InitSeats /\ [][NextSeats]_vars

\* The seat section: the lines after the table line up to the first one
\* that does not match the seat grammar.
RECURSIVE SeatSection(_, _)
SeatSection(lines, k) ==
    IF k > Len(lines) \/ _seat_re(lines[k]) = NoMatch THEN <<>>
    ELSE <<lines[k]>> \o SeatSection(lines, k + 1)

\* C7: after the seat scan, button resolution and hero resolution, the
\* button is the very record stored in the player collection at index
\* (button seat - 1), that record is a parsed player (not a placeholder)
\* whose seat number is the button seat, and when the hero is the button the
\* button is the replaced hero record carrying the hole cards.
C7_ButtonIsStoredParsedPlayer ==
    (pc = "done" /\ hand.hero # Unassigned) =>
        LET button_seat == PyInt(hand._table_match[2].button)[2]
            players == hand.players[2]
            button  == hand.button[2]
        IN  /\ button_seat \in 1..Len(players)
            /\ button = players[button_seat]
            /\ ~IsPlaceholder(button)
            /\ button.seat = button_seat
            /\ button.name = hand.hero[2].name =>
                  button = hand.hero[2] /\ IsVal(button.combo)

\* C8: for a seat section of N lines matching the seat grammar, after the
\* seat scan the player collection (sized to max seats) has exactly N
\* non-placeholder entries, each stored at index (seat - 1) with a seat
\* number in 1..max_seats that no other entry shares; the other seats stay
\* placeholders.
C8_SeatScanFillsNSeats ==
    (pc = "button" /\ hand.players # Unassigned) =>
        LET players == hand.players[2]
            section == SeatSection(PySliceFrom(Text, 2), 1)
            filled  == {i \in 1..Len(players) : ~IsPlaceholder(players[i])}
        IN  /\ Len(players) = hand.max_players[2]
            /\ Cardinality(filled) = Len(section)
            /\ \A i \in filled :
                  /\ players[i].seat = i
                  /\ \A j \in filled : players[j].seat = players[i].seat => i = j
            /\ \A i \in 1..Len(players) :
                  (\A k \in 1..Len(section) :
                      PyInt(_seat_re(section[k])[2].seat)[2] # i)
                  => IsPlaceholder(players[i])

(***************************************************************************)
(* _parse_preflop, _parse_flop, _parse_street, _parse_showdown,            *)
(* _parse_pot, _parse_board, _parse_winners                                *)
(***************************************************************************)
\* The run of digits that starts string s.
RECURSIVE LeadingDigits(_)
LeadingDigits(s) ==
    IF Len(s) > 0 /\ s[1] \in Digits
    THEN <<s[1]>> \o LeadingDigits(SubSeq(s, 2, Len(s)))
    ELSE <<>>

\* _pot_re.match(line):  ^Total pot (\d*) .*\| Rake (\d*)$
_pot_re(line) ==
    LET pot  == LeadingDigits(PySliceFrom(line, 10))
        rest == PySliceFrom(line, 10 + Len(pot))
        rake == TrailingDigits(line)
        bar  == PyRFind(rest, <<"|"," ","R","a","k","e"," ">>)
    IN  IF /\ StartsWith(line, <<"T","o","t","a","l"," ","p","o","t"," ">>)
           /\ StartsWith(rest, <<" ">>)
           /\ bar >= 1
           /\ AllDigits(PySliceFrom(rest, bar + 7))
        THEN <<"match", [pot |-> pot, rake |-> PySliceFrom(rest, bar + 7)]>>
        ELSE NoMatch

\* _board_re.findall(line) with _board_re  (?<=[\[ ])(..)(?=[\] ]) :
\* the two-character tokens that follow '[' or ' ' and precede ']' or ' ',
\* scanned from Python index i on, matches not overlapping.
RECURSIVE _board_re_findall(_, _)
_board_re_findall(line, i) ==
    IF i + 2 >= Len(line) THEN <<>>
    ELSE IF /\ i >= 1
            /\ line[i] \in {"[", " "}
            /\ line[i + 3] \in {"]", " "}
         THEN <<PySlice(line, i, i + 2)>> \o _board_re_findall(line, i + 2)
         ELSE _board_re_findall(line, i + 1)

\* _winner_re.match(line):  ^Seat (\d): (.*) collected \((\d*)\)$
_winner_re(line) ==
    LET body   == PySliceTo(line, Len(line) - 1)
        amount == TrailingDigits(body)
        rest   == PySliceTo(body, Len(body) - Len(amount))
    IN  IF /\ StartsWith(line, <<"S","e","a","t"," ">>)
           /\ Len(line) >= 21
           /\ line[6] \in Digits
           /\ PySlice(line, 6, 8) = <<":"," ">>
           /\ EndsWith(line, <<")">>)
           /\ EndsWith(rest, <<" ","c","o","l","l","e","c","t","e","d"," ","(">>)
        THEN <<"match", [seat |-> <<line[6]>>,
                         name |-> PySlice(rest, 8, Len(rest) - 12),
                         amount |-> amount]>>
        ELSE NoMatch

\* _showdown_re.match(line):  ^Seat (\d): (.*) showed .* and won
\* The name group is greedy: it ends at the last ' showed ' that still has
\* ' and won' after it.
_showdown_re(line) ==
    LET ends == {i \in 8..Len(line) :
                    /\ OccursAt(line, <<" ","s","h","o","w","e","d"," ">>, i)
                    /\ PyFind(line, <<" ","a","n","d"," ","w","o","n">>, i + 8) # -1}
    IN  IF /\ StartsWith(line, <<"S","e","a","t"," ">>)
           /\ Len(line) >= 8
           /\ line[6] \in Digits
           /\ PySlice(line, 6, 8) = <<":"," ">>
           /\ ends # {}
        THEN <<"match", [seat |-> <<line[6]>>,
                         name |-> PySlice(line, 8,
                                     CHOOSE i \in ends : \A j \in ends : j <= i)]>>
        ELSE NoMatch

\* The index of the k-th (from 0) empty element: self._sections[k]
RECURSIVE NthSection(_, _, _)
NthSection(lines, k, from) ==
    LET i == PyIndex(lines, <<>>, from)
    IN  IF i = -1 THEN -1
        ELSE IF k = 0 THEN i ELSE NthSection(lines, k - 1, i + 1)

\* The street sections and summary lines the hands are made of.
FlopOptions == {<<>>, <<"", "FLOP", FlopCardLine, "A: checks">>}
TurnOptions == {<<>>, <<"", "TURN", "[2s 3d 4h] [5c]", "A: checks">>,
                <<"", "TURN", "[2s 3d 4h] [5c]">>}
RiverOptions == {<<>>, <<"", "RIVER", "[2s 3d 4h 5c] [6d]", "A: bets 40">>}
ShowdownOptions == {<<>>, <<"", "SHOW DOWN", "A: shows [Ah Kd]">>}
BoardOptions == {<<>>, <<"Board [2s 3d 4h]">>, <<"Board [2s 3d 4h 5c]">>,
                 <<"Board [2s 3d 4h 5c 6d]">>}

SummaryCorpus == {
    "Seat 1: A collected (100)",
    "Seat 2: B folded before Flop",
    "Seat 1: A showed [Ah Kd] and won (50)",
    "Seat 2: B showed [As Kc] and won (50)",
    "Seat 2: wonder mucked" }

MaxSummaryLines == 2

StreetHands ==
    {<<"PokerStars Hand #77", "", "HOLE CARDL", "Dealt to A [Ah Kd]", "B: calls 20">>
        \o f \o t \o r \o sd \o <<"", "SUMMARY", "Total pot 100 | Rake 0">> \o b \o ss :
        f \in FlopOptions, t \in TurnOptions, r \in RiverOptions,
        sd \in ShowdownOptions, b \in BoardOptions,
        ss \in SeqsUpTo(SummaryCorpus, MaxSummaryLines)}

InitStreets ==
    /\ pc = "preflop"
    /\ err = ""
    /\ splitted \in StreetHands
    /\ match = NoMatch
    /\ initial_pot = 0
    /\ hand = NewHand(StreetFields)
    /\ flop = NoFlop
    /\ actions = <<>>
    /\ root = NoRoot
    /\ given = <<>>

StreetFrame == UNCHANGED <<splitted, match, flop, actions, root, given>>

\* _parse_preflop; what it returns is the pot handed to _parse_flop.
_parse_preflop ==
    /\ pc = "preflop"
    /\ StreetFrame
    /\ LET start == NthSection(Text, 0, 0) + 3
           stop  == NthSection(Text, 1, 0)
       IN  IF stop = -1
           THEN Fail("IndexError") /\ UNCHANGED <<hand, initial_pot>>
           ELSE /\ hand' = [hand EXCEPT !.preflop_actions = Val(PySlice(splitted, start, stop))]
                /\ initial_pot' = 0
                /\ pc' = "flop"
                /\ UNCHANGED err

\* self.flop = _Flop(floplines, initial_pot), f being what the constructor did
_parse_flop_assign(f) ==
    IF IsOk(f.res)
    THEN /\ hand' = [hand EXCEPT !.flop = Val(f.self)]
         /\ pc' = "turn"
         /\ UNCHANGED err
    ELSE Fail(f.res[2]) /\ UNCHANGED hand

\* _parse_flop(initial_pot), the _Flop constructor included
_parse_flop ==
    /\ pc = "flop"
    /\ StreetFrame
    /\ UNCHANGED initial_pot
    /\ IF PyIndex(Text, <<"F","L","O","P">>, 0) = -1
       THEN /\ hand' = [hand EXCEPT !.flop = None]
            /\ pc' = "turn"
            /\ UNCHANGED err
       ELSE IF FlopStop(Text) = -1
       THEN Fail("ValueError") /\ UNCHANGED hand
       ELSE _parse_flop_assign(_Flop(FlopLines(Text), initial_pot))

\* _parse_street(street) on hand h: the hand it leaves
_parse_street(h, lines, street, keyword) ==
    LET at    == PyIndex(lines, keyword, 0)
        start == at + 2
        stop  == PyIndex(lines, <<>>, start)
        street_actions == PySlice(lines, start, stop)
        attr  == IF street = "turn" THEN "turn_actions" ELSE "river_actions"
    IN  IF at = -1 \/ stop = -1
        THEN \* except ValueError
             [h EXCEPT ![street] = None, ![attr] = None]
        ELSE [h EXCEPT ![attr] =
                 IF Len(street_actions) > 0 THEN Val(street_actions) ELSE None]

_parse_turn ==
    /\ pc = "turn"
    /\ StreetFrame
    /\ hand' = _parse_street(hand, Text, "turn", <<"T","U","R","N">>)
    /\ pc' = "river"
    /\ UNCHANGED <<err, initial_pot>>

_parse_river ==
    /\ pc = "river"
    /\ StreetFrame
    /\ hand' = _parse_street(hand, Text, "river", <<"R","I","V","E","R">>)
    /\ pc' = "showdown"
    /\ UNCHANGED <<err, initial_pot>>

_parse_showdown ==
    /\ pc = "showdown"
    /\ StreetFrame
    /\ hand' = [hand EXCEPT !.show_down = Val(PyIndex(Text, <<"S","H","O","W"," ","D","O","W","N">>, 0) # -1)]
    /\ pc' = "pot"
    /\ UNCHANGED <<err, initial_pot>>

_parse_pot ==
    /\ pc = "pot"
    /\ StreetFrame
    /\ UNCHANGED initial_pot
    /\ LET at == LastSection(Text) + 2
           m  == _pot_re(PyGet(Text, at))
           total == PyInt(m[2].pot)
       IN  IF ~PyInRange(Text, at) THEN Fail("IndexError") /\ UNCHANGED hand
           ELSE IF m = NoMatch THEN Fail("AttributeError") /\ UNCHANGED hand
           ELSE IF ~IsOk(total) THEN Fail(total[2]) /\ UNCHANGED hand
           ELSE /\ hand' = [hand EXCEPT !.total_pot = Val(total[2])]
                /\ pc' = "board"
                /\ UNCHANGED err

_parse_board ==
    /\ pc = "board"
    /\ StreetFrame
    /\ UNCHANGED initial_pot
    /\ LET at == LastSection(Text) + 3
           boardline == PyGet(Text, at)
           cards == _board_re_findall(boardline, 0)
           turn  == IF Len(cards) > 3 THEN Card(cards[4]) ELSE Ok(<<>>)
           river == IF Len(cards) > 4 THEN Card(cards[5]) ELSE Ok(<<>>)
       IN  IF ~PyInRange(Text, at) THEN Fail("IndexError") /\ UNCHANGED hand
           ELSE IF ~StartsWith(boardline, <<"B","o","a","r","d">>)
           THEN pc' = "winners" /\ UNCHANGED <<err, hand>>
           ELSE IF ~IsOk(turn) THEN Fail(turn[2]) /\ UNCHANGED hand
           ELSE IF ~IsOk(river)
           THEN /\ Fail(river[2])
                /\ hand' = [hand EXCEPT !.turn = Val(turn[2])]
           ELSE /\ hand' = [hand EXCEPT
                               !.turn  = IF Len(cards) > 3 THEN Val(turn[2]) ELSE None,
                               !.river = IF Len(cards) > 4 THEN Val(river[2]) ELSE None]
                /\ pc' = "winners"
                /\ UNCHANGED err

\* The loop of _parse_winners over lines k.., with the winners so far:
\* the set of names, or the error of the first match that is None.
RECURSIVE _parse_winners_loop(_, _, _, _)
_parse_winners_loop(lines, k, show_down, winners) ==
    IF k > Len(lines) THEN Ok(winners)
    ELSE LET line == lines[k]
         IN  IF ~show_down /\ Contains(line, <<"c","o","l","l","e","c","t","e","d">>)
             THEN IF _winner_re(line) = NoMatch THEN Raise("AttributeError")
                  ELSE _parse_winners_loop(lines, k + 1, show_down,
                                           winners \cup {_winner_re(line)[2].name})
             ELSE IF show_down /\ Contains(line, <<"w","o","n">>)
             THEN IF _showdown_re(line) = NoMatch THEN Raise("AttributeError")
                  ELSE _parse_winners_loop(lines, k + 1, show_down,
                                           winners \cup {_showdown_re(line)[2].name})
             ELSE _parse_winners_loop(lines, k + 1, show_down, winners)

\* The lines _parse_winners scans: self._splitted[start:]
WinnerLines(lines) == PySliceFrom(lines, LastSection(lines) + 4)

_parse_winners ==
    /\ pc = "winners"
    /\ StreetFrame
    /\ UNCHANGED initial_pot
    /\ LET r == _parse_winners_loop(WinnerLines(Text), 1, hand.show_down[2], {})
       IN  IF IsOk(r)
           THEN /\ hand' = [hand EXCEPT !.winners = Val(r[2])]
                /\ pc' = "done"
                /\ UNCHANGED err
           ELSE Fail(r[2]) /\ UNCHANGED hand

NextStreets ==
    \/ _parse_preflop \/ _parse_flop \/ _parse_turn \/ _parse_river
    \/ _parse_showdown \/ _parse_pot \/ _parse_board \/ _parse_winners

SpecStreets == InitStreets /\ [][NextStreets]_vars

\* The flop, turn, river and board stages have all run.
BoardStagesRan == pc \in {"winners", "done"} /\ hand.total_pot # Unassigned

\* C5: after the flop, turn, river and board stages have run on any line
\* sequence, the board respects street progression -- a turn card that is
\* set needs a flop that is set (3 cards), and a river card that is set
\* needs a turn card that is set.
C5_BoardProgression ==
    BoardStagesRan =>
        /\ IsVal(hand.turn) => IsVal(hand.flop) /\ Len(hand.flop[2].cards[2]) = 3
        /\ IsVal(hand.river) => IsVal(hand.turn)

\* C6: if the split lines hold no 'FLOP' element, then after the pipeline
\* the flop, the turn card, the river card and the street action sequences
\* are all unset and the Board line has set neither turn nor river, whatever
\* the remaining lines contain.
C6_NoFlopNoStreets ==
    (BoardStagesRan /\ PyIndex(Text, <<"F","L","O","P">>, 0) = -1) =>
        /\ ~IsVal(hand.flop)
        /\ ~IsVal(hand.turn)
        /\ ~IsVal(hand.river)
        /\ ~IsVal(hand.turn_actions)
        /\ ~IsVal(hand.river_actions)

\* The lines of the summary section.
SummaryLines(lines) == PySliceFrom(lines, PyIndex(lines, <<"S","U","M","M","A","R","Y">>, 0) + 1)

\* C9: winner resolution keeps the two paths apart -- show_down is true
\* exactly when a 'SHOW DOWN' element exists; without a showdown every
\* winner's name comes from a summary line containing 'collected', with a
\* showdown from a summary line containing 'won'; and winners is non-empty
\* for every hand that got through summary resolution without an error.
C9_WinnersResolved ==
    (pc = "done" /\ hand.winners # Unassigned) =>
        LET show_down == hand.show_down[2]
            winners   == hand.winners[2]
            summary   == SummaryLines(Text)
        IN  /\ show_down <=> (\E i \in 1..Len(splitted) : splitted[i] = "SHOW DOWN")
            /\ \A w \in winners :
                  \E i \in 1..Len(summary) :
                      /\ Contains(summary[i], IF show_down THEN <<"w","o","n">> ELSE <<"c","o","l","l","e","c","t","e","d">>)
                      /\ Contains(summary[i], w)
            /\ winners # {}

(***************************************************************************)
(* Notes: the labels and the notes of the XML document                     *)
(***************************************************************************)
MaxLabels == 3
MaxNotes == 2
MaxId == 3

RECURSIVE PyStr(_)
\* str(n) of a non-negative integer
PyStr(n) ==
    LET d == CASE n % 10 = 0 -> "0" [] n % 10 = 1 -> "1" [] n % 10 = 2 -> "2"
               [] n % 10 = 3 -> "3" [] n % 10 = 4 -> "4" [] n % 10 = 5 -> "5"
               [] n % 10 = 6 -> "6" [] n % 10 = 7 -> "7" [] n % 10 = 8 -> "8"
               [] n % 10 = 9 -> "9"
    IN  IF n < 10 THEN <<d>> ELSE PyStr(n \div 10) \o <<d>>

\* c.upper() of one character
UpperChar(c) ==
    LET lower == <<"a","b","c","d","e","f","g","h","i","j","k","l","m","n","o","p","q","r","s","t","u","v","w","x","y","z">>
        upper == <<"A","B","C","D","E","F","G","H","I","J","K","L","M","N","O","P","Q","R","S","T","U","V","W","X","Y","Z">>
    IN  IF \E k \in 1..26 : lower[k] = c
        THEN upper[CHOOSE k \in 1..26 : lower[k] = c]
        ELSE c

\* s.upper()
PyUpper(s) == [k \in 1..Len(s) |-> UpperChar(s[k])]

\* _color_re.match(s): ^[0-9A-F]{6}$
_color_re(s) ==
    /\ Len(s) = 6
    /\ \A k \in 1..6 : s[k] \in Digits \cup {"A", "B", "C", "D", "E", "F"}

\* <label id=... color=...>name</label>
_Label(id, color, name) == [id |-> id, color |-> color, name |-> name]

\* <note player=... label=... update=...>text</note>
_Note(player, label, update, text) ==
    [player |-> player, label |-> label, update |-> update, text |-> text]

\* seq without its k-th element
RemoveAt(seq, k) == SubSeq(seq, 1, k - 1) \o SubSeq(seq, k + 1, Len(seq))

\* _find_label: the index of the first label whose text is name
_find_label(name) ==
    LET found == {k \in 1..Len(root.labels) : root.labels[k].name = name}
    IN  IF found = {}
        THEN Raise("LabelNotFoundError")
        ELSE Ok(CHOOSE k \in found : \A j \in found : k <= j)

\* _find_note: the index of the first note of the player
_find_note(player) ==
    LET found == {k \in 1..Len(root.notes) : root.notes[k].player = player}
    IN  IF found = {}
        THEN Raise("NoteNotFoundError")
        ELSE Ok(CHOOSE k \in found : \A j \in found : k <= j)

\* _get_note_data: the label id is looked up in {id: text} of the labels
\* present now (for equal ids the last label wins); a missing id is a KeyError.
_get_note_data(note) ==
    LET ids == {root.labels[k].id : k \in 1..Len(root.labels)}
        last(id) == CHOOSE k \in 1..Len(root.labels) :
                        /\ root.labels[k].id = id
                        /\ \A j \in (k + 1)..Len(root.labels) :
                               root.labels[j].id # id
    IN  IF note.label = <<"-","1">>
        THEN Ok(_Note(note.player, None, PyInt(note.update)[2], note.text))
        ELSE IF note.label \notin ids
             THEN Raise("KeyError")
             ELSE Ok(_Note(note.player, Val(root.labels[last(note.label)].name),
                           PyInt(note.update)[2], note.text))

\* get_note(player)
get_note(player) ==
    LET f == _find_note(player)
    IN  IF IsOk(f) THEN _get_note_data(root.notes[f[2]]) ELSE f

LabelNames == {"FISH", "SHARK"}
Colors == {"ff0000", "00FF7F", "red"}
PlayerIds == {"p1", "p2"}
NoteTexts == {"calls wide"}
Updates == {7}
\* the label argument of add_note: None by default, or a label name
NoteLabels == {None} \cup {Val(n) : n \in LabelNames}

\* Documents whose label ids are unique and ascending and that hold no note.
InitialLabels == {
    <<>>,
    <<_Label(<<"0">>, <<"F","F","0","0","0","0">>, "FISH")>>,
    <<_Label(<<"0">>, <<"F","F","0","0","0","0">>, "FISH"), _Label(<<"1">>, <<"0","0","0","0","F","F">>, "SHARK")>> }

InitNotes ==
    /\ pc = "notes"
    /\ err = ""
    /\ splitted = <<>>
    /\ match = NoMatch
    /\ initial_pot = 0
    /\ hand = NewHand({})
    /\ flop = NoFlop
    /\ actions = <<>>
    /\ \E ls \in InitialLabels : root = [labels |-> ls, notes |-> <<>>]
    /\ given = <<>>

NotesFrame == UNCHANGED <<pc, splitted, match, initial_pot, hand, flop, actions>>

\* The call raised e: the document is as it was.
NotesRaise(e) == err' = e /\ UNCHANGED <<root, given>>

add_label ==
    /\ pc = "notes"
    /\ NotesFrame
    /\ \E name \in LabelNames, color \in Colors :
        LET color_upper == PyUpper(Chars(color))
            last_id == PyInt(PyGet(root.labels, -1).id)
            new_id == PyStr(last_id[2] + 1)
        IN  IF ~_color_re(color_upper)
            THEN NotesRaise("ValueError")
            ELSE IF Len(root.labels) = 0
            THEN NotesRaise("IndexError")
            ELSE /\ Len(root.labels) < MaxLabels
                 /\ last_id[2] + 1 <= MaxId
                 /\ root' = [root EXCEPT !.labels =
                                Append(@, _Label(new_id, color_upper, name))]
                 /\ err' = ""
                 /\ UNCHANGED given

del_label ==
    /\ pc = "notes"
    /\ NotesFrame
    /\ \E name \in LabelNames :
        LET f == _find_label(name)
        IN  IF ~IsOk(f)
            THEN NotesRaise(f[2])
            ELSE /\ root' = [root EXCEPT !.labels = RemoveAt(@, f[2])]
                 /\ err' = ""
                 /\ UNCHANGED given

add_note ==
    /\ pc = "notes"
    /\ NotesFrame
    /\ \E player \in PlayerIds, text \in NoteTexts, label \in NoteLabels,
          update \in Updates :
        LET f == IF IsVal(label) THEN _find_label(label[2]) ELSE Ok(0)
            label_id == IF IsVal(label) THEN root.labels[f[2]].id ELSE <<"-","1">>
        IN  IF ~IsOk(f)
            THEN NotesRaise(f[2])
            ELSE /\ Len(root.notes) < MaxNotes
                 /\ root' = [root EXCEPT !.notes =
                                Append(@, _Note(player, label_id, PyStr(update), text))]
                 /\ given' = Append(given, label)
                 /\ err' = ""

del_note ==
    /\ pc = "notes"
    /\ NotesFrame
    /\ \E player \in PlayerIds :
        LET f == _find_note(player)
        IN  IF ~IsOk(f)
            THEN NotesRaise(f[2])
            ELSE /\ root' = [root EXCEPT !.notes = RemoveAt(@, f[2])]
                 /\ given' = RemoveAt(given, f[2])
                 /\ err' = ""

NextNotes == add_label \/ del_label \/ add_note \/ del_note

SpecNotes == InitNotes /\ [][NextNotes]_vars

\* C10: every stored note's label id is '-1' or the id of a label still present
\* that the note was created with, so get_note succeeds for every stored
\* player and reports the label the note was given.
C10_NotesReferentialIntegrity ==
    pc = "notes" =>
        /\ \A i \in 1..Len(root.notes) :
               \/ root.notes[i].label = <<"-","1">>
               \/ \E k \in 1..Len(root.labels) :
                      /\ root.labels[k].id = root.notes[i].label
                      /\ Val(root.labels[k].name) = given[i]
        /\ \A i \in 1..Len(root.notes) :
               LET got == get_note(root.notes[i].player)
                   first == _find_note(root.notes[i].player)[2]
               IN  /\ IsOk(got)
                   /\ got[2].label = given[first]
====
